---- MODULE Spec2Model ----
(***************************************************************************)
(* Conversions between circuits and cudaq kernels / OpenQASM programs      *)
(* (mitiq/interface/mitiq_cudaq/conversions.py and                         *)
(* mitiq/interface/mitiq_openqasm/conversions.py).                         *)
(*                                                                         *)
(* Every caller runs the pipeline                                          *)
(*   to_cudaq(circuit) ; from_cudaq(kernel) ; to_openqasm ; from_openqasm  *)
(* one statement group at a time.  Callers are interleaved freely, so the  *)
(* four conversions of different callers overlap in every order.           *)
(*                                                                         *)
(* Numbers.  A rotation angle is kept as a fixed-point integer counting    *)
(* 10^-Resolution half-turns, the unit of a cirq gate exponent (radians    *)
(* divided by pi); np.round(e, 6) is rounding to a multiple of             *)
(* 10^(Resolution - Decimals) units, ties to even.                         *)
(***************************************************************************)
EXTENDS Integers, Sequences, FiniteSets, TLC

\* ---------------------------------------------------------------- bounds
MaxLen == 2
NumQubits == 3
NumCallers == 2

\* np.round(op.gate.exponent, 6)
Decimals == 6
Resolution == Decimals + 1

RECURSIVE Pow10(_)
Pow10(n) == IF n = 0 THEN 1 ELSE 10 * Pow10(n - 1)

\* exponent 1.0 (a full X, Y, Z, H, CX or CCX gate)
One == Pow10(Resolution)
Grain == Pow10(Resolution - Decimals)

Callers == 1 .. NumCallers
Qubits == 0 .. (NumQubits - 1)

\* 0.5, 0.6666667, 0.1234565 (a tie), -0.1234575 (a negative tie)
Angles == {5000000, 6666667, 1234565, -1234575}

VARIABLES
    active,      \* the callers that run in this specification
    circuit,     \* circuit[p]: the caller's input circuit
    circuit0,    \* ghost: circuit[p] as it was before the call
    pc,          \* pc[p]: where caller p is in the pipeline
    qiskit_qc,   \* to_cudaq local: the transpiled circuit
    cudaq_qc,    \* to_cudaq local / result: the kernel, [id, calls]
    qr,          \* to_cudaq local: the register, [id, size]
    i,           \* to_cudaq: position of the loop over qiskit_qc
    origin,      \* ghost: origin[p][k] = input position that emitted call k
    made,        \* ghost: made[p] = [kernels, registers] created by the call
    nextObj,     \* the allocator: identity of the next object created
    cirq_qc,     \* from_cudaq local / result: operations [name, qubits, gate]
    parsed,      \* ghost: cirq_qc[p] with its exponents, as parsed
    j,           \* from_cudaq: position of the loop over all_operations()
    gateExp,     \* the gate objects: gate identity -> its _exponent
    program,     \* to_openqasm result
    cirq_out     \* from_openqasm result

vars == <<active, circuit, circuit0, pc, qiskit_qc, cudaq_qc, qr, i, origin,
          made, nextObj, cirq_qc, parsed, j, gateExp, program, cirq_out>>

\* ------------------------------------------------------- input circuits
Instr(n, qs, ps) == [name |-> n, qubits |-> qs, params |-> ps]

Pairs == {<<a, b>> : a \in Qubits, b \in Qubits} \ {<<a, a>> : a \in Qubits}
Triples == {<<a, b, c>> : a \in Qubits, b \in Qubits, c \in Qubits} \
           {t \in {<<a, b, c>> : a \in Qubits, b \in Qubits, c \in Qubits} :
               t[1] = t[2] \/ t[1] = t[3] \/ t[2] = t[3]}

\* Every instruction the loop of to_cudaq can meet: the basis gates of the
\* transpile call, "toffoli", measure, and a barrier, which transpile keeps
\* and the dispatch does not name.  The qubits of one instruction are
\* distinct and below num_qubits.
Ops ==
    {Instr(n, <<q>>, <<>>) :
        n \in {"x", "y", "z", "h", "measure", "barrier"}, q \in Qubits}
    \cup {Instr(n, <<q>>, <<a>>) : n \in {"rx", "rz"}, q \in Qubits, a \in Angles}
    \cup {Instr("cx", qs, <<>>) : qs \in Pairs}
    \cup {Instr(n, qs, <<>>) : n \in {"ccx", "toffoli"}, qs \in Triples}

\* One instruction of each name.
CoreOps ==
    { Instr("x", <<0>>, <<>>), Instr("y", <<1>>, <<>>), Instr("z", <<2>>, <<>>),
      Instr("h", <<0>>, <<>>), Instr("rx", <<1>>, <<6666667>>),
      Instr("rz", <<2>>, <<1234565>>), Instr("cx", <<1, 0>>, <<>>),
      Instr("ccx", <<2, 0, 1>>, <<>>), Instr("toffoli", <<1, 2, 0>>, <<>>),
      Instr("measure", <<1>>, <<>>), Instr("barrier", <<0>>, <<>>) }

\* H(q0), CX(q0, q1), Measure(q0), Measure(q1)
ExampleCircuit ==
    << Instr("h", <<0>>, <<>>), Instr("cx", <<0, 1>>, <<>>),
       Instr("measure", <<0>>, <<>>), Instr("measure", <<1>>, <<>>) >>

\* The input circuits of a single caller: the empty circuit, the example
\* circuit, and the circuits of at most MaxLen instructions of CoreOps in
\* which the instruction at one place k, if any, is replaced by an
\* instruction o of Ops.
Circuits(n, base, k, o) ==
    IF n = 0 THEN {<<>>, ExampleCircuit}
    ELSE IF k <= n THEN {[base EXCEPT ![k] = o]}
    ELSE {base}

\* The circuits of concurrent callers.
ConcCircuits ==
    { << Instr("h", <<0>>, <<>>), Instr("rx", <<1>>, <<6666667>>) >>,
      << Instr("cx", <<1, 0>>, <<>>), Instr("measure", <<1>>, <<>>) >>,
      << Instr("rz", <<2>>, <<-1234575>>), Instr("x", <<0>>, <<>>) >>,
      << Instr("ccx", <<2, 0, 1>>, <<>>), Instr("barrier", <<0>>, <<>>) >> }

\* to_qiskit and transpile: the circuit is given by the instructions the
\* transpiled circuit holds, over the same qubits.
Transpile(c) == c
NumQubitsOf(c) == NumQubits

\* ------------------------------------------------------------- to_cudaq
\* qr[qubit]: the slot of register r at an index
QrGet(r, q) == [reg |-> r.id, idx |-> q]

\* one call on the kernel builder
Call(g, ps, cs, t) == [gate |-> g, param |-> ps, controls |-> cs, target |-> t]

\* mutant: the x call copied into every single-qubit branch
EmitSingleAlwaysX(gate, r) ==
    << Call("x", <<>>, <<>>, QrGet(r, gate.qubits[1])) >>

\* cudaq_qc.x / y / z / h (qr[qubit])
EmitSingle(gate, r) ==
    << Call(gate.name, <<>>, <<>>, QrGet(r, gate.qubits[1])) >>

\* mutant: the angle reduced to one full turn before it is passed
EmitRotationNormalised(gate, r) ==
    << Call(gate.name, <<gate.params[1] % (2 * One)>>, <<>>,
            QrGet(r, gate.qubits[1])) >>

\* cudaq_qc.rx / rz (param, qr[qubit])
EmitRotation(gate, r) ==
    << Call(gate.name, <<gate.params[1]>>, <<>>, QrGet(r, gate.qubits[1])) >>

\* mutant: control and target exchanged
EmitCxSwapped(gate, r) ==
    << Call("cx", <<>>, << QrGet(r, gate.qubits[2]) >>, QrGet(r, gate.qubits[1])) >>

\* cudaq_qc.cx(qr[qubits[0]], qr[qubits[1]])
EmitCx(gate, r) ==
    << Call("cx", <<>>, << QrGet(r, gate.qubits[1]) >>, QrGet(r, gate.qubits[2])) >>

\* mutant: the first control index written twice
EmitCcxRepeatedControl(gate, r) ==
    << Call("cx", <<>>,
            << QrGet(r, gate.qubits[1]), QrGet(r, gate.qubits[1]) >>,
            QrGet(r, gate.qubits[3])) >>

\* cudaq_qc.cx([qr[qubits[0]], qr[qubits[1]]], qr[qubits[2]])
EmitCcx(gate, r) ==
    << Call("cx", <<>>,
            << QrGet(r, gate.qubits[1]), QrGet(r, gate.qubits[2]) >>,
            QrGet(r, gate.qubits[3])) >>

\* for qubit in qubits: cudaq_qc.mz(qr[qubit])
EmitMeasure(gate, r) ==
    [k \in 1 .. Len(gate.qubits) |->
        Call("mz", <<>>, <<>>, QrGet(r, gate.qubits[k]))]

\* mutant: a final else that emits a call for any other name
EmissionFallthrough(gate, r) ==
    IF gate.name \in {"x", "y", "z", "h"} THEN EmitSingle(gate, r)
    ELSE IF gate.name \in {"rx", "rz"} THEN EmitRotation(gate, r)
    ELSE IF gate.name = "cx" THEN EmitCx(gate, r)
    ELSE IF gate.name \in {"ccx", "toffoli"} THEN EmitCcx(gate, r)
    ELSE IF gate.name = "measure" THEN EmitMeasure(gate, r)
    ELSE EmitSingle(gate, r)

\* the if / elif chain on gate.name; a name it does not list emits nothing
Emission(gate, r) ==
    IF gate.name \in {"x", "y", "z", "h"} THEN EmitSingle(gate, r)
    ELSE IF gate.name \in {"rx", "rz"} THEN EmitRotation(gate, r)
    ELSE IF gate.name = "cx" THEN EmitCx(gate, r)
    ELSE IF gate.name \in {"ccx", "toffoli"} THEN EmitCcx(gate, r)
    ELSE IF gate.name = "measure" THEN EmitMeasure(gate, r)
    ELSE <<>>

\* mutant: one module-level kernel serves every call
ToCudaqBeginSharedKernel(p) ==
    /\ p \in active
    /\ pc[p] = "to_cudaq"
    /\ qiskit_qc' = [qiskit_qc EXCEPT ![p] = Transpile(circuit[p])]
    /\ cudaq_qc' = [cudaq_qc EXCEPT ![p] = [id |-> 1, calls |-> <<>>]]
    /\ qr' = [qr EXCEPT ![p] =
                [id |-> nextObj + 1, size |-> NumQubitsOf(circuit[p])]]
    /\ nextObj' = nextObj + 2
    /\ made' = [made EXCEPT ![p] = [kernels |-> @.kernels + 1,
                                    registers |-> @.registers + 1]]
    /\ i' = [i EXCEPT ![p] = 1]
    /\ origin' = [origin EXCEPT ![p] = <<>>]
    /\ pc' = [pc EXCEPT ![p] = "emit"]
    /\ UNCHANGED <<active, circuit, circuit0, cirq_qc, parsed, j, gateExp,
                   program, cirq_out>>

\* to_qiskit, transpile, make_kernel, qalloc
ToCudaqBegin(p) ==
    /\ p \in active
    /\ pc[p] = "to_cudaq"
    /\ qiskit_qc' = [qiskit_qc EXCEPT ![p] = Transpile(circuit[p])]
    /\ cudaq_qc' = [cudaq_qc EXCEPT ![p] = [id |-> nextObj, calls |-> <<>>]]
    /\ qr' = [qr EXCEPT ![p] =
                [id |-> nextObj + 1, size |-> NumQubitsOf(circuit[p])]]
    /\ nextObj' = nextObj + 2
    /\ made' = [made EXCEPT ![p] = [kernels |-> @.kernels + 1,
                                    registers |-> @.registers + 1]]
    /\ i' = [i EXCEPT ![p] = 1]
    /\ origin' = [origin EXCEPT ![p] = <<>>]
    /\ pc' = [pc EXCEPT ![p] = "emit"]
    /\ UNCHANGED <<active, circuit, circuit0, cirq_qc, parsed, j, gateExp,
                   program, cirq_out>>

\* mutant: the calls of an instruction go in front of the kernel's calls
EmitGateInFront(p) ==
    /\ p \in active
    /\ pc[p] = "emit"
    /\ i[p] <= Len(qiskit_qc[p])
    /\ LET calls == Emission(qiskit_qc[p][i[p]], qr[p])
       IN /\ cudaq_qc' = [cudaq_qc EXCEPT ![p].calls = calls \o @]
          /\ origin' = [origin EXCEPT ![p] =
                           [k \in 1 .. Len(calls) |-> i[p]] \o @]
    /\ i' = [i EXCEPT ![p] = @ + 1]
    /\ UNCHANGED <<active, circuit, circuit0, pc, qiskit_qc, qr, made, nextObj,
                   cirq_qc, parsed, j, gateExp, program, cirq_out>>

\* mutant: every caller appends to the kernel of the first caller
EmitGateOneKernel(p) ==
    /\ p \in active
    /\ pc[p] = "emit"
    /\ i[p] <= Len(qiskit_qc[p])
    /\ LET calls == Emission(qiskit_qc[p][i[p]], qr[p])
       IN /\ cudaq_qc' = [cudaq_qc EXCEPT ![1].calls = @ \o calls]
          /\ origin' = [origin EXCEPT ![1] =
                           @ \o [k \in 1 .. Len(calls) |-> i[p]]]
    /\ i' = [i EXCEPT ![p] = @ + 1]
    /\ UNCHANGED <<active, circuit, circuit0, pc, qiskit_qc, qr, made, nextObj,
                   cirq_qc, parsed, j, gateExp, program, cirq_out>>

\* one iteration of "for gate in qiskit_qc"
EmitGate(p) ==
    /\ p \in active
    /\ pc[p] = "emit"
    /\ i[p] <= Len(qiskit_qc[p])
    /\ LET calls == Emission(qiskit_qc[p][i[p]], qr[p])
       IN /\ cudaq_qc' = [cudaq_qc EXCEPT ![p].calls = @ \o calls]
          /\ origin' = [origin EXCEPT ![p] =
                           @ \o [k \in 1 .. Len(calls) |-> i[p]]]
    /\ i' = [i EXCEPT ![p] = @ + 1]
    /\ UNCHANGED <<active, circuit, circuit0, pc, qiskit_qc, qr, made, nextObj,
                   cirq_qc, parsed, j, gateExp, program, cirq_out>>

\* return cudaq_qc
ToCudaqReturn(p) ==
    /\ p \in active
    /\ pc[p] = "emit"
    /\ i[p] > Len(qiskit_qc[p])
    /\ pc' = [pc EXCEPT ![p] = "from_cudaq"]
    /\ UNCHANGED <<active, circuit, circuit0, qiskit_qc, cudaq_qc, qr, i,
                   origin, made, nextObj, cirq_qc, parsed, j, gateExp,
                   program, cirq_out>>

\* ----------------------------------------------------------- from_cudaq
\* one statement of OpenQASM text
Stmt(n, as, qs) == [stmt |-> n, args |-> as, qargs |-> qs]

\* cudaq.translate(kernel, format="openqasm2"): a controlled x prints as cx
\* or ccx by its number of controls, mz as measure
Translate(calls) ==
    [k \in 1 .. Len(calls) |->
        LET c == calls[k]
            qs == [m \in 1 .. Len(c.controls) |-> c.controls[m].idx]
                      \o << c.target.idx >>
        IN IF c.gate = "cx"
           THEN Stmt(IF Len(c.controls) = 2 THEN "ccx" ELSE "cx", <<>>, qs)
           ELSE IF c.gate = "mz" THEN Stmt("measure", <<>>, qs)
           ELSE Stmt(c.gate, c.param, qs)]

\* qasm2_to_qiskit, compose onto an empty QuantumCircuit, qiskit_to_qasm2:
\* the statements are kept, only the register is renamed
Recompose(text) == text

\* The gate object qasm2_to_cirq gives statement k of caller p: x, y, z, h,
\* cx and ccx parse to the module-level gates of cirq, one object for all
\* circuits; a rotation and a measurement get an object of their own.
GateObject(p, k, st) ==
    IF st.stmt \in {"x", "y", "z", "h", "cx", "ccx"}
    THEN <<0, 0, st.stmt>>
    ELSE <<p, k, st.stmt>>

\* the module-level gates, with exponent 1
SharedGates == [g \in {<<0, 0, n>> : n \in {"x", "y", "z", "h", "cx", "ccx"}} |-> One]

\* hasattr(op.gate, "exponent"): a measurement gate has none
HasExponent(g, heap) == g \in DOMAIN heap

\* mutant: the digits past the sixth decimal cut off
Round6Floor(e) == (e \div Grain) * Grain

\* np.round(e, 6): to the nearest multiple of Grain, ties to the even one
Round6(e) ==
    LET q == e \div Grain
        r == e % Grain
    IN IF 2 * r < Grain THEN q * Grain
       ELSE IF 2 * r > Grain THEN (q + 1) * Grain
       ELSE IF q % 2 = 0 THEN q * Grain
       ELSE (q + 1) * Grain

\* an operation as a reader sees it: its gate's exponent looked up
Resolve(op, heap) ==
    [name |-> op.name, qubits |-> op.qubits,
     exponent |-> IF HasExponent(op.gate, heap) THEN <<heap[op.gate]>> ELSE <<>>]

Resolved(ops, heap) == [k \in 1 .. Len(ops) |-> Resolve(ops[k], heap)]

\* cudaq.translate ... qasm2_to_cirq
FromCudaqParse(p) ==
    /\ p \in active
    /\ pc[p] = "from_cudaq"
    /\ LET text == Recompose(Translate(cudaq_qc[p].calls))
           ops == [k \in 1 .. Len(text) |->
                      [name |-> text[k].stmt, qubits |-> text[k].qargs,
                       gate |-> GateObject(p, k, text[k])]]
           own == {k \in 1 .. Len(text) : text[k].stmt \in {"rx", "rz"}}
           heap == gateExp @@
                   [g \in {ops[k].gate : k \in own} |->
                       text[CHOOSE k \in own : ops[k].gate = g].args[1]]
       IN /\ cirq_qc' = [cirq_qc EXCEPT ![p] = ops]
          /\ gateExp' = heap
          /\ parsed' = [parsed EXCEPT ![p] = Resolved(ops, heap)]
    /\ j' = [j EXCEPT ![p] = 1]
    /\ pc' = [pc EXCEPT ![p] = "round"]
    /\ UNCHANGED <<active, circuit, circuit0, qiskit_qc, cudaq_qc, qr, i,
                   origin, made, nextObj, program, cirq_out>>

\* one iteration of "for op in cirq_qc.all_operations()"
RoundGate(p) ==
    /\ p \in active
    /\ pc[p] = "round"
    /\ j[p] <= Len(cirq_qc[p])
    /\ LET g == cirq_qc[p][j[p]].gate
       IN gateExp' = IF HasExponent(g, gateExp)
                     THEN [gateExp EXCEPT ![g] = Round6(@)]
                     ELSE gateExp
    /\ j' = [j EXCEPT ![p] = @ + 1]
    /\ UNCHANGED <<active, circuit, circuit0, pc, qiskit_qc, cudaq_qc, qr, i,
                   origin, made, nextObj, cirq_qc, parsed, program, cirq_out>>

\* return cirq_qc
FromCudaqReturn(p) ==
    /\ p \in active
    /\ pc[p] = "round"
    /\ j[p] > Len(cirq_qc[p])
    /\ pc' = [pc EXCEPT ![p] = "to_openqasm"]
    /\ UNCHANGED <<active, circuit, circuit0, qiskit_qc, cudaq_qc, qr, i,
                   origin, made, nextObj, cirq_qc, parsed, j, gateExp,
                   program, cirq_out>>

\* ------------------------------------------- to_openqasm, from_openqasm
\* mitiq_qiskit.to_qasm: a rotation prints its angle, any other gate its name
ToQasm(ops) ==
    [k \in 1 .. Len(ops) |->
        Stmt(ops[k].name,
             IF ops[k].name \in {"rx", "rz"} THEN ops[k].exponent ELSE <<>>,
             ops[k].qubits)]

\* qasm3_to_openqasm3: text to the statements of a Program
Qasm3ToOpenqasm3(text) ==
    [statements |->
        [k \in 1 .. Len(text) |->
            IF text[k].stmt = "measure"
            THEN [kind |-> "QuantumMeasurementStatement", name |-> "measure",
                  arguments |-> <<>>, qubits |-> text[k].qargs]
            ELSE [kind |-> "QuantumGate", name |-> text[k].stmt,
                  arguments |-> text[k].args, qubits |-> text[k].qargs]]]

\* openqasm3_to_qasm3: the statements of a Program to text
Openqasm3ToQasm3(prog) ==
    [k \in 1 .. Len(prog.statements) |->
        Stmt(prog.statements[k].name, prog.statements[k].arguments,
             prog.statements[k].qubits)]

\* mitiq_qiskit.from_qasm: text to operations
FromQasm(text) ==
    [k \in 1 .. Len(text) |->
        [name |-> text[k].stmt, qubits |-> text[k].qargs,
         exponent |-> IF text[k].stmt \in {"rx", "rz"} THEN text[k].args
                      ELSE IF text[k].stmt = "measure" THEN <<>>
                      ELSE <<One>>]]

\* to_openqasm(circuit)
to_openqasm(c) == Qasm3ToOpenqasm3(ToQasm(c))

\* from_openqasm(circuit)
from_openqasm(prog) == FromQasm(Openqasm3ToQasm3(prog))

ToOpenqasm(p) ==
    /\ p \in active
    /\ pc[p] = "to_openqasm"
    /\ program' = [program EXCEPT ![p] = to_openqasm(Resolved(cirq_qc[p], gateExp))]
    /\ pc' = [pc EXCEPT ![p] = "from_openqasm"]
    /\ UNCHANGED <<active, circuit, circuit0, qiskit_qc, cudaq_qc, qr, i,
                   origin, made, nextObj, cirq_qc, parsed, j, gateExp, cirq_out>>

FromOpenqasm(p) ==
    /\ p \in active
    /\ pc[p] = "from_openqasm"
    /\ cirq_out' = [cirq_out EXCEPT ![p] = from_openqasm(program[p])]
    /\ pc' = [pc EXCEPT ![p] = "done"]
    /\ UNCHANGED <<active, circuit, circuit0, qiskit_qc, cudaq_qc, qr, i,
                   origin, made, nextObj, cirq_qc, parsed, j, gateExp, program>>

\* ------------------------------------------------------- specifications
Start(act, circs) ==
    /\ active = act
    /\ circuit = circs
    /\ circuit0 = circs
    /\ pc = [p \in Callers |-> IF p \in act THEN "to_cudaq" ELSE "off"]
    /\ qiskit_qc = [p \in Callers |-> <<>>]
    /\ cudaq_qc = [p \in Callers |-> [id |-> 0, calls |-> <<>>]]
    /\ qr = [p \in Callers |-> [id |-> 0, size |-> 0]]
    /\ i = [p \in Callers |-> 1]
    /\ origin = [p \in Callers |-> <<>>]
    /\ made = [p \in Callers |-> [kernels |-> 0, registers |-> 0]]
    /\ nextObj = 1
    /\ cirq_qc = [p \in Callers |-> <<>>]
    /\ parsed = [p \in Callers |-> <<>>]
    /\ j = [p \in Callers |-> 1]
    /\ gateExp = SharedGates
    /\ program = [p \in Callers |-> [statements |-> <<>>]]
    /\ cirq_out = [p \in Callers |-> <<>>]

\* one caller, on any of the input circuits
Init ==
    \E n \in 0 .. MaxLen :
        \E base \in [1 .. n -> CoreOps], k \in 1 .. (n + 1), o \in Ops :
            \E c \in Circuits(n, base, k, o) :
                Start({1}, [p \in Callers |-> IF p = 1 THEN c ELSE <<>>])

\* every caller runs, each on a circuit of ConcCircuits
InitConc ==
    \E circs \in [Callers -> ConcCircuits] : Start(Callers, circs)

Next ==
    \E p \in Callers :
        \/ ToCudaqBegin(p)
        \/ EmitGate(p)
        \/ ToCudaqReturn(p)
        \/ FromCudaqParse(p)
        \/ RoundGate(p)
        \/ FromCudaqReturn(p)
        \/ ToOpenqasm(p)
        \/ FromOpenqasm(p)

Spec == Init /\ [][Next]_vars

SpecConc == InitConc /\ [][Next]_vars

\* --------------------------------------------------------------- claims
RECURSIVE Flatten(_)
Flatten(ss) == IF ss = <<>> THEN <<>> ELSE Head(ss) \o Flatten(Tail(ss))

Enumerated == {"x", "y", "z", "h", "rx", "rz", "cx", "ccx", "toffoli", "measure"}

\* caller p is past make_kernel / qalloc
Begun(p) == p \in active /\ pc[p] # "to_cudaq"

\* to_cudaq of caller p has returned
Returned(p) == Begun(p) /\ pc[p] # "emit"

\* the instructions the loop of caller p has gone through
Processed(p) == SubSeq(qiskit_qc[p], 1, i[p] - 1)

\* the slot of p's register at index q
Slot(p, q) == [reg |-> qr[p].id, idx |-> q]

\* What the specification has one instruction emit: one call per gate, one
\* mz per measured qubit.
PerOperation(p, op) ==
    CASE op.name \in {"x", "y", "z", "h"} ->
            << [gate |-> op.name, param |-> <<>>, controls |-> <<>>,
                target |-> Slot(p, op.qubits[1])] >>
      [] op.name \in {"rx", "rz"} ->
            << [gate |-> op.name, param |-> op.params, controls |-> <<>>,
                target |-> Slot(p, op.qubits[1])] >>
      [] op.name = "cx" ->
            << [gate |-> "cx", param |-> <<>>,
                controls |-> << Slot(p, op.qubits[1]) >>,
                target |-> Slot(p, op.qubits[2])] >>
      [] op.name \in {"ccx", "toffoli"} ->
            << [gate |-> "cx", param |-> <<>>,
                controls |-> << Slot(p, op.qubits[1]), Slot(p, op.qubits[2]) >>,
                target |-> Slot(p, op.qubits[3])] >>
      [] op.name = "measure" ->
            [k \in 1 .. Len(op.qubits) |->
                [gate |-> "mz", param |-> <<>>, controls |-> <<>>,
                 target |-> Slot(p, op.qubits[k])]]
      [] OTHER -> <<>>

\* C1: for a circuit of enumerated kinds only, at every point of the loop
\* the calls on the kernel are exactly the per-operation emissions of the
\* instructions gone through, concatenated in input order: the calls of an
\* earlier instruction all precede those of a later one, and each
\* instruction has exactly its own calls, none added and none left out.
C1_InOrderConcatenation ==
    \A p \in Callers :
        (Begun(p) /\ \A k \in 1 .. Len(qiskit_qc[p]) : qiskit_qc[p][k].name \in Enumerated)
        => LET calls == cudaq_qc[p].calls
               seen == Processed(p)
           IN /\ calls = Flatten([k \in 1 .. Len(seen) |-> PerOperation(p, seen[k])])
              /\ Len(origin[p]) = Len(calls)
              /\ \A a, b \in 1 .. Len(calls) : a < b => origin[p][a] <= origin[p][b]
              /\ \A k \in 1 .. Len(seen) :
                    Cardinality({a \in 1 .. Len(calls) : origin[p][a] = k})
                        = IF seen[k].name = "measure" THEN Len(seen[k].qubits) ELSE 1
              /\ (Returned(p) => Len(seen) = Len(circuit[p]))

\* the example circuit has been converted: h, cx, mz, mz
C1_Witness ==
    /\ Returned(1)
    /\ circuit[1] = ExampleCircuit
    /\ Len(cudaq_qc[1].calls) = 4
    /\ [k \in 1 .. 4 |-> cudaq_qc[1].calls[k].gate] = <<"h", "cx", "mz", "mz">>

\* C3: an instruction whose name the dispatch does not list stops nothing
\* and emits nothing: the loop can always go on or return, no call on the
\* kernel comes from such an instruction, and the kernel holds the
\* emissions of all the other instructions in their input order.
C3_UnknownGateDropped ==
    \A p \in Callers :
        Begun(p)
        => LET calls == cudaq_qc[p].calls
               seen == Processed(p)
               known == SelectSeq(seen, LAMBDA op : op.name \in Enumerated)
           IN /\ calls = Flatten([k \in 1 .. Len(known) |-> PerOperation(p, known[k])])
              /\ \A a \in 1 .. Len(origin[p]) :
                    qiskit_qc[p][origin[p][a]].name \in Enumerated
              /\ (pc[p] = "emit" => ENABLED (EmitGate(p) \/ ToCudaqReturn(p)))
              /\ (Returned(p) => seen = circuit[p])

\* a kernel was returned for a circuit that has a barrier before a gate
C3_Witness ==
    /\ Returned(1)
    /\ Len(circuit[1]) = 2
    /\ circuit[1][1].name = "barrier"
    /\ circuit[1][2].name = "cx"
    /\ Len(cudaq_qc[1].calls) = 1

\* C7: the call emitted for an rx or rz instruction carries the
\* instruction's first parameter itself, on the slot of its first qubit.
C7_AnglePassedThrough ==
    \A p \in Callers :
        Begun(p)
        => /\ \A a \in 1 .. Len(cudaq_qc[p].calls) :
                 LET op == qiskit_qc[p][origin[p][a]]
                     c == cudaq_qc[p].calls[a]
                 IN op.name \in {"rx", "rz"}
                    => /\ c.gate = op.name
                       /\ c.param = << op.params[1] >>
                       /\ c.target = Slot(p, op.qubits[1])
                       /\ c.controls = <<>>
           /\ \A k \in 1 .. (i[p] - 1) :
                 qiskit_qc[p][k].name \in {"rx", "rz"}
                 => \E a \in 1 .. Len(origin[p]) : origin[p][a] = k

\* an rx whose angle has more than six decimals has been emitted
C7_Witness ==
    /\ Returned(1)
    /\ \E a \in 1 .. Len(cudaq_qc[1].calls) :
          /\ cudaq_qc[1].calls[a].gate = "rx"
          /\ cudaq_qc[1].calls[a].param = << 6666667 >>
          /\ cudaq_qc[1].calls[a].target.idx = 2

\* C8: cx on [a, b] is emitted with control a and target b; ccx and
\* toffoli on [a, b, c] are emitted alike, as a controlled x with controls
\* [a, b] and target c.
C8_RolesKept ==
    \A p \in Callers :
        Begun(p)
        => \A a \in 1 .. Len(cudaq_qc[p].calls) :
              LET op == qiskit_qc[p][origin[p][a]]
                  c == cudaq_qc[p].calls[a]
              IN /\ op.name = "cx"
                    => /\ c.gate = "cx"
                       /\ c.controls = << Slot(p, op.qubits[1]) >>
                       /\ c.target = Slot(p, op.qubits[2])
                 /\ op.name \in {"ccx", "toffoli"}
                    => /\ c.gate = "cx"
                       /\ c.controls = << Slot(p, op.qubits[1]), Slot(p, op.qubits[2]) >>
                       /\ c.target = Slot(p, op.qubits[3])

\* a toffoli whose qubits are listed out of ascending order has been emitted
C8_Witness ==
    /\ Returned(1)
    /\ \E k \in 1 .. Len(circuit[1]) :
          /\ circuit[1][k].name = "toffoli"
          /\ circuit[1][k].qubits = <<2, 1, 0>>
    /\ \E a \in 1 .. Len(cudaq_qc[1].calls) :
          /\ Len(cudaq_qc[1].calls[a].controls) = 2
          /\ cudaq_qc[1].calls[a].target.idx = 0

\* the slots a call refers to
SlotsOf(c) == {c.controls[m] : m \in 1 .. Len(c.controls)} \cup {c.target}

\* C9: at every point of the loop, the call emitted for a cx refers to
\* exactly 2 distinct slots and the call emitted for a ccx or toffoli to
\* exactly 3, all of them slots of the register.
C9_Arity ==
    \A p \in Callers :
        Begun(p)
        => \A a \in 1 .. Len(cudaq_qc[p].calls) :
              LET op == qiskit_qc[p][origin[p][a]]
                  c == cudaq_qc[p].calls[a]
              IN /\ op.name = "cx" => Cardinality(SlotsOf(c)) = 2
                 /\ op.name \in {"ccx", "toffoli"} => Cardinality(SlotsOf(c)) = 3
                 /\ \A s \in SlotsOf(c) : s.reg = qr[p].id /\ s.idx \in 0 .. (qr[p].size - 1)

\* the loop is under way with a cx and a ccx already emitted
C9_Witness ==
    /\ pc[1] = "emit"
    /\ i[1] = 3
    /\ qiskit_qc[1][1].name = "cx"
    /\ qiskit_qc[1][2].name = "ccx"
    /\ Len(cudaq_qc[1].calls) = 2

Abs(x) == IF x < 0 THEN -x ELSE x

\* from_cudaq of caller p has returned
FromCudaqReturned(p) ==
    p \in active /\ pc[p] \in {"to_openqasm", "from_openqasm", "done"}

\* r is e rounded to Decimals decimals: a multiple of the grain, nearest to e
IsRounded(r, e) == r % Grain = 0 /\ 2 * Abs(r - e) <= Grain

C10_ExponentsRounded ==
    \A p \in Callers :
        FromCudaqReturned(p)
        => LET out == Resolved(cirq_qc[p], gateExp)
           IN /\ Len(out) = Len(parsed[p])
              /\ \A k \in 1 .. Len(out) :
                    /\ out[k].name = parsed[p][k].name
                    /\ out[k].qubits = parsed[p][k].qubits
                    /\ Len(out[k].exponent) = Len(parsed[p][k].exponent)
                    /\ parsed[p][k].exponent = <<>> => out[k] = parsed[p][k]
                    /\ parsed[p][k].exponent # <<>>
                       => /\ IsRounded(out[k].exponent[1], parsed[p][k].exponent[1])
                          /\ Round6(out[k].exponent[1]) = out[k].exponent[1]

\* a circuit with a measurement and a rotation whose exponent the pass
\* changed has been returned
C10_Witness ==
    /\ FromCudaqReturned(1)
    /\ Len(parsed[1]) = 2
    /\ parsed[1][1].name = "measure"
    /\ parsed[1][2].exponent = << -1234575 >>
    /\ Resolve(cirq_qc[1][2], gateExp).exponent = << -1234580 >>

ToCudaqAlone(c, r) ==
    LET q == Transpile(c)
    IN Flatten([k \in 1 .. Len(q) |-> Emission(q[k], r)])

\* from_cudaq run alone on the calls of a kernel
FromCudaqAlone(calls) ==
    LET text == Recompose(Translate(calls))
    IN [k \in 1 .. Len(text) |->
           [name |-> text[k].stmt, qubits |-> text[k].qargs,
            exponent |-> IF text[k].stmt \in {"rx", "rz"} THEN << Round6(text[k].args[1]) >>
                         ELSE IF text[k].stmt = "measure" THEN <<>>
                         ELSE << Round6(One) >>]]

====
